---- MODULE Spec2Model ----
(***************************************************************************)
(* Model of server.js, the Express application of keiko-contracts: the     *)
(* middleware chain (express.json, the global rate limiter, the tracing    *)
(* middleware), the nine GET routes, the fallback error middleware and the *)
(* contract files on disk, which are provisioned and changed from outside. *)
(*                                                                         *)
(* Strings the code inspects character by character (file names, Accept    *)
(* headers, YAML text) are sequences of tokens; the tokens ".", "/" and    *)
(* "\\" are the single characters, every other token is a run of           *)
(* characters that contains none of them.  The host is POSIX (Dockerfile:  *)
(* node:24-alpine), so "/" is the only path separator.                     *)
(***************************************************************************)
EXTENDS Integers, Sequences, FiniteSets, TLC

\* ------------------------------------------------------------------ bounds
\* Requests served in one behaviour of Spec, SpecChain, SpecRate, SpecWindow
\* SpecRender, SpecListing, SpecDownloads and SpecQuiet.
MaxRequests == 2
MaxChainRequests == 3
MaxRateRequests == 3
MaxWindowRequests == 5
MaxRenderRequests == 2
MaxListingRequests == 2
MaxDownloadRequests == 2
MaxQuietRequests == 3
MaxSendRequests == 3
\* Changes made to the contract files from outside the server.
MaxFsChanges == 1
\* Times the clock is advanced.
MaxTicks == 2
\* The limiters' max (1000 and 100 in server.js), scaled down.
GlobalMax == 2
StrictMax == 1

\* --------------------------------------------------------- program constants
\* windowMs of the two limiters, in minutes.
GlobalWindowMin == 15
StrictWindowMin == 1

Clients == {"ip1", "ip2"}
Categories == {"openapi", "asyncapi", "protobuf"}

\* ------------------------------------------------------------------ strings
\* String.prototype.includes for a one-token needle.
Includes(s, tok) == \E i \in 1..Len(s) : s[i] = tok

\* String.prototype.includes('..'): two adjacent dots.
IncludesDotDot(s) == \E i \in 1..(Len(s) - 1) : s[i] = "." /\ s[i + 1] = "."

\* String.prototype.endsWith('.' + ext).
EndsWith(s, ext) ==
  /\ Len(s) >= 2
  /\ s[Len(s) - 1] = "."
  /\ s[Len(s)] = ext

\* ------------------------------------------------------------------ paths
\* A path is a sequence of segments, a segment a sequence of tokens.
RECURSIVE SplitSep(_, _)
\* "cur" is the segment being read, in front of the rest "s".
SplitSep(s, cur) ==
  IF s = <<>> THEN <<cur>>
  ELSE IF Head(s) = "/" THEN <<cur>> \o SplitSep(Tail(s), <<>>)
  ELSE SplitSep(Tail(s), Append(cur, Head(s)))

RECURSIVE Normalize(_, _)
\* path.normalize of a relative path: "" and "." segments are dropped, ".."
\* removes the segment before it, or stays when there is none to remove.
Normalize(segs, acc) ==
  IF segs = <<>> THEN acc
  ELSE LET h == Head(segs) IN
    IF h = <<>> \/ h = <<".">> THEN Normalize(Tail(segs), acc)
    ELSE IF h = <<".", ".">> THEN
      IF acc # <<>> /\ acc[Len(acc)] # <<".", ".">>
      THEN Normalize(Tail(segs), SubSeq(acc, 1, Len(acc) - 1))
      ELSE Normalize(Tail(segs), Append(acc, h))
    ELSE Normalize(Tail(segs), Append(acc, h))

\* './contracts/<category>'
Root(cat) == <<<<"contracts">>, <<cat>>>>

\* path.join('./contracts/<category>', name)
PathJoin(cat, name) == Normalize(Root(cat) \o SplitSep(name, <<>>), <<>>)

\* ------------------------------------------------------------------ YAML
\* A text is a sequence of lines, a line a sequence of tokens.
IsCommentLine(l) == Len(l) >= 1 /\ l[1] = "#"
IsEntryLine(l) == Len(l) = 3 /\ l[2] = ":" /\ l[3] # "["

\* Plain scalars the YAML timestamp type matches.
Timestamps == {"2024-01-15"}

\* The value a plain scalar resolves to: a Date for a timestamp, the string
\* itself otherwise.
Resolve(tok) == IF tok \in Timestamps THEN <<"date", tok>> ELSE <<"str", tok>>

RECURSIVE LoadLines(_)
\* The mapping a text denotes: one <<key, value>> per entry line, comments
\* dropped.
LoadLines(text) ==
  IF text = <<>> THEN <<>>
  ELSE IF IsCommentLine(Head(text)) THEN LoadLines(Tail(text))
  ELSE <<<<Head(text)[1], Resolve(Head(text)[3])>>>> \o LoadLines(Tail(text))

\* yaml.load: throws on a line that is neither a comment nor an entry, gives
\* undefined for a text without content, the mapping otherwise.
YamlLoad(text) ==
  IF \E i \in 1..Len(text) : ~IsCommentLine(text[i]) /\ ~IsEntryLine(text[i])
  THEN [threw |-> TRUE, defined |-> FALSE, tree |-> <<>>]
  ELSE [threw |-> FALSE, defined |-> LoadLines(text) # <<>>, tree |-> LoadLines(text)]

\* ------------------------------------------------------------- file store
\* What a path names: nothing, a directory, or a regular file with its text.
Absent == [kind |-> "absent", text |-> <<>>]
DirNode == [kind |-> "dir", text |-> <<>>]
FileNode(t) == [kind |-> "file", text |-> t]

DocCommented == << <<"#", "note">>, <<"openapi", ":", "3.0.3">> >>
DocBroken == << <<"openapi", ":", "[">> >>
DocEmpty == <<>>
DocDated == << <<"openapi", ":", "3.0.3">>, <<"released", ":", "2024-01-15">> >>
Texts == {DocCommented, DocBroken, DocEmpty, DocDated}
Nodes == {Absent, DirNode} \cup {FileNode(t) : t \in Texts}

\* The file the two aggregate routes read.
AggName == <<"backend-frontend-api-v1", ".", "yaml">>
AggPath == PathJoin("openapi", AggName)

\* The entries the category roots can hold.
StoredNames(cat) ==
  CASE cat = "openapi" -> {AggName, <<"x", ".", "yml">>}
    [] cat = "asyncapi" -> {<<"x", ".", "yaml">>, <<"x", ".", ".", "yaml">>}
    [] cat = "protobuf" -> {<<"x", ".", "proto">>, <<"x", ".", "yaml">>}
StoredPaths == UNION {{PathJoin(cat, n) : n \in StoredNames(cat)} : cat \in Categories}

\* The directory a stored path lies in.
CatOf(path) == path[2][1]

\* The node a path names in file store f.
NodeAt(f, path) ==
  IF path \in StoredPaths /\ f.dirs[CatOf(path)] THEN f.files[path]
  ELSE IF \E cat \in Categories : path = Root(cat) /\ f.dirs[cat] THEN DirNode
  ELSE Absent

\* fs.existsSync: true for whatever the path names, directories included.
ExistsSync(f, path) == NodeAt(f, path).kind # "absent"

\* fs.readFileSync(path, 'utf8'): throws unless the path names a regular file.
ReadFileSync(f, path) ==
  LET n == NodeAt(f, path) IN
  [threw |-> n.kind # "file", text |-> n.text]

\* fs.statSync: throws when the path names nothing.
StatSyncThrows(f, path) == NodeAt(f, path).kind = "absent"

\* fs.readdirSync of a category root: the entry names; throws without the root.
ReaddirSync(f, cat) ==
  [threw |-> ~f.dirs[cat],
   names |-> {n \in StoredNames(cat) : NodeAt(f, PathJoin(cat, n)).kind # "absent"}]

\* The contracts as the image provisions them (Dockerfile COPY lines).
Provisioned ==
  [dirs |-> [cat \in Categories |-> TRUE],
   files |-> [p \in StoredPaths |->
                IF p \in {PathJoin("openapi", <<"x", ".", "yml">>),
                          PathJoin("asyncapi", <<"x", ".", ".", "yaml">>)}
                THEN Absent
                ELSE FileNode(DocCommented)],
   manifest |-> FileNode(DocCommented)]

\* --------------------------------------------------------------- requests
\* The :spec / :file parameter values clients send (decoded, so "%2F" is "/").
NamePrefixes ==
  {<<".", ".", "/">>, <<".", ".", "/", "asyncapi", "/">>, <<"sub", "/">>,
   <<"sub", "\\">>, <<".", ".">>}
PlainNames ==
  {AggName, <<"x", ".", "yaml">>, <<"x", ".", "yml">>, <<"x", ".", "proto">>, <<"x">>}
FileNames ==
  PlainNames
  \cup {p \o n : p \in NamePrefixes, n \in {<<"x", ".", "yaml">>, <<"x", ".", "proto">>}}

\* Accept headers: absent (<<>>) or a list of media types.
Accepts == {<<>>, <<"application/json">>, <<"text/html", "application/yaml">>}

\* The test with === in place of includes.
WantsYamlExact(accept) == accept = <<"application/yaml">>

\* req.headers.accept && req.headers.accept.includes('application/yaml')
WantsYaml(accept) == accept # <<>> /\ Includes(accept, "application/yaml")

\* -------------------------------------------------------------- responses
NoFields == {}
Body(kind, fields, error, cid, text, tree, listing) ==
  [kind |-> kind, fields |-> fields, error |-> error, correlationId |-> cid,
   text |-> text, tree |-> tree, listing |-> listing]

\* res.status(..).json({ error, correlationId }); JSON.stringify leaves out a
\* correlationId that is undefined (0 here).
ErrorBody(msg, cid) ==
  Body("json", IF cid = 0 THEN {"error"} ELSE {"error", "correlationId"},
       msg, cid, <<>>, <<>>, {})

\* Date.prototype.toISOString
ToISOString(tok) == CASE tok = "2024-01-15" -> "2024-01-15T00:00:00.000Z"

\* JSON.stringify of a tree, as a client reads it back: a Date has become
\* the string of its toJSON.
JsonValue(v) == IF v[1] = "date" THEN <<"str", ToISOString(v[2])>> ELSE v
JsonStringify(tree) == [i \in DOMAIN tree |-> <<tree[i][1], JsonValue(tree[i][2])>>]

\* res.json(tree); an undefined tree gives an empty body.
TreeBody(y) ==
  Body(IF y.defined THEN "json" ELSE "empty", NoFields, "", 0, <<>>,
       JsonStringify(y.tree), {})

\* res.send(text) / res.sendFile: the stored text as it is.
TextBody(text) == Body("text", NoFields, "", 0, text, <<>>, {})

\* The counter label of a download, or none.
NoLabel == <<>>
Label(type, name) == <<type, name>>

\* What a handler did: the response, the filesystem calls it made, the
\* download counter it incremented and the file store it left behind.
Out(status, by, ctype, body, calls, inc, f) ==
  [status |-> status, by |-> by, contentType |-> ctype, body |-> body,
   calls |-> calls, inc |-> inc, fs |-> f]

\* A filesystem call: the operation, its path and the node it found there.
Call(op, path, node) == [op |-> op, path |-> path, node |-> node]

\* ----------------------------------------------------------- named routes
\* The validation without its '..' test.
InvalidSpecNameNoDotDot(name) == Includes(name, "/") \/ ~EndsWith(name, "yaml")

\* The validation without its '/' test.
InvalidSpecNameNoSep(name) == IncludesDotDot(name) \/ ~EndsWith(name, "yaml")

\* specFile.includes('..') || specFile.includes('/') || !specFile.endsWith('.yaml')
InvalidSpecName(name) ==
  IncludesDotDot(name) \/ Includes(name, "/") \/ ~EndsWith(name, "yaml")

\* The validation without its extension test.
InvalidProtoNameAnyExt(name) == IncludesDotDot(name) \/ Includes(name, "/")

\* protoFile.includes('..') || protoFile.includes('/') || !protoFile.endsWith('.proto')
InvalidProtoName(name) ==
  IncludesDotDot(name) \/ Includes(name, "/") \/ ~EndsWith(name, "proto")

\* The try block with a parse failure answered as a client error.
RenderSpecParseIs400(cat, name, accept, cid, text, calls, f, failed) ==
  IF WantsYaml(accept)
  THEN Out(200, "handler", "application/yaml", TextBody(text), calls,
           Label(cat, name), f)
  ELSE LET y == YamlLoad(text) IN
    IF y.threw
    THEN Out(400, "handler", "application/json", ErrorBody(failed, cid), calls,
             Label(cat, name), f)
    ELSE Out(200, "handler", "application/json", TreeBody(y), calls,
             Label(cat, name), f)

\* The try block with the request's correlation id put into the JSON body.
RenderSpecStampsId(cat, name, accept, cid, text, calls, f, failed) ==
  IF WantsYaml(accept)
  THEN Out(200, "handler", "application/yaml", TextBody(text), calls,
           Label(cat, name), f)
  ELSE LET y == YamlLoad(text) IN
    IF y.threw
    THEN Out(500, "handler", "application/json", ErrorBody(failed, cid), calls,
             Label(cat, name), f)
    ELSE Out(200, "handler", "application/json",
             Body("json", {"correlationId"}, "", cid, <<>>, JsonStringify(y.tree), {}),
             calls, Label(cat, name), f)

\* The try block without the download counter.
RenderSpecUncounted(cat, name, accept, cid, text, calls, f, failed) ==
  IF WantsYaml(accept)
  THEN Out(200, "handler", "application/yaml", TextBody(text), calls, NoLabel, f)
  ELSE LET y == YamlLoad(text) IN
    IF y.threw
    THEN Out(500, "handler", "application/json", ErrorBody(failed, cid), calls,
             NoLabel, f)
    ELSE Out(200, "handler", "application/json", TreeBody(y), calls, NoLabel, f)

\* The body of the try block of the two YAML routes, after readFileSync
\* returned "text".
RenderSpec(cat, name, accept, cid, text, calls, f, failed) ==
  IF WantsYaml(accept)
  THEN Out(200, "handler", "application/yaml", TextBody(text), calls,
           Label(cat, name), f)
  ELSE LET y == YamlLoad(text) IN
    IF y.threw
    THEN Out(500, "handler", "application/json", ErrorBody(failed, cid), calls,
             Label(cat, name), f)
    ELSE Out(200, "handler", "application/json", TreeBody(y), calls,
             Label(cat, name), f)

\* app.get('/openapi/:spec') and app.get('/asyncapi/:spec'): f1 is the file
\* store existsSync sees, f2 the one readFileSync sees.
SpecRoute(cat, name, accept, cid, f1, f2, msg) ==
  LET filePath == PathJoin(cat, name) IN
  IF InvalidSpecName(name)
  THEN Out(400, "handler", "application/json", ErrorBody(msg.invalid, cid), {},
           NoLabel, f1)
  ELSE IF ~ExistsSync(f1, filePath)
  THEN Out(404, "handler", "application/json", ErrorBody(msg.notFound, cid),
           {Call("existsSync", filePath, NodeAt(f1, filePath))}, NoLabel, f1)
  ELSE LET r == ReadFileSync(f2, filePath)
           calls == {Call("existsSync", filePath, NodeAt(f1, filePath)),
                     Call("readFileSync", filePath, NodeAt(f2, filePath))}
       IN IF r.threw
          THEN Out(500, "handler", "application/json", ErrorBody(msg.failed, cid),
                   calls, NoLabel, f2)
          ELSE RenderSpec(cat, name, accept, cid, r.text, calls, f2, msg.failed)

OpenapiMsg ==
  [invalid |-> "Invalid specification file name",
   notFound |-> "Specification not found",
   failed |-> "Failed to parse specification"]

AsyncapiMsg ==
  [invalid |-> "Invalid AsyncAPI specification file name",
   notFound |-> "AsyncAPI specification not found",
   failed |-> "Failed to parse AsyncAPI specification"]

OpenapiHandler(name, accept, cid, f1, f2) ==
  SpecRoute("openapi", name, accept, cid, f1, f2, OpenapiMsg)

AsyncapiHandler(name, accept, cid, f1, f2) ==
  SpecRoute("asyncapi", name, accept, cid, f1, f2, AsyncapiMsg)

\* Express's final handler, reached when no route answers: 404 with an HTML
\* page.
FinalHandlerBody == Body("html", NoFields, "", 0, <<>>, <<>>, {})

\* A fallback that answers with the exception's message and stack.
ErrorMiddlewareBodyWithMessage(cid) ==
  Body("json", {"error", "message", "stack", "correlationId"},
       "ENOENT: no such file or directory, stat '/app/contracts/protobuf/x.proto'",
       cid, <<>>, <<>>, {})

\* The fallback error middleware: res.status(500).json({ error, correlationId }).
ErrorMiddlewareBody(cid) == ErrorBody("Internal server error", cid)

\* app.get('/protobuf/:file'): f1 is the file store existsSync sees, f2 the
\* one statSync sees, f3 the one res.sendFile sees.
ProtobufHandler(name, cid, f1, f2, f3) ==
  LET filePath == PathJoin("protobuf", name)
      c1 == {Call("existsSync", filePath, NodeAt(f1, filePath))}
      c2 == c1 \cup {Call("statSync", filePath, NodeAt(f2, filePath))}
      c3 == c2 \cup {Call("sendFile", filePath, NodeAt(f3, filePath))}
      n == NodeAt(f3, filePath)
  IN
  IF InvalidProtoName(name)
  THEN Out(400, "handler", "application/json",
           ErrorBody("Invalid protobuf file name", cid), {}, NoLabel, f1)
  ELSE IF ~ExistsSync(f1, filePath)
  THEN Out(404, "handler", "application/json",
           ErrorBody("Protobuf file not found", cid), c1, NoLabel, f1)
  ELSE IF StatSyncThrows(f2, filePath)
  THEN Out(500, "handler", "application/json",
           ErrorBody("Failed to serve protobuf file", cid), c2,
           Label("protobuf", name), f2)
  ELSE IF n.kind = "file"
  THEN Out(200, "handler", "text/plain", TextBody(n.text), c3,
           Label("protobuf", name), f3)
  ELSE IF n.kind = "dir"
  THEN Out(404, "finalhandler", "text/html", FinalHandlerBody, c3,
           Label("protobuf", name), f3)
  ELSE Out(500, "errorMiddleware", "application/json", ErrorMiddlewareBody(cid),
           c3, Label("protobuf", name), f3)

\* ----------------------------------------------------------- fixed routes
ManifestPath == <<<<"contracts">>, <<"versions", ".", "yaml">>>>

\* A health check that looks for the contract directories.
HealthHandlerChecksDirs(cid, f) ==
  Out(IF \A cat \in Categories : f.dirs[cat] THEN 200 ELSE 503, "handler",
      "application/json",
      Body("json", {"status", "timestamp", "service", "version", "correlationId"},
           "", cid, <<>>, <<>>, {}),
      {}, NoLabel, f)

\* app.get('/health')
HealthHandler(cid, f) ==
  Out(200, "handler", "application/json",
      Body("json", {"status", "timestamp", "service", "version", "correlationId"},
           "", cid, <<>>, <<>>, {}),
      {}, NoLabel, f)

\* app.get('/metrics'): "fails" is register.metrics() rejecting.
MetricsHandler(cid, f, fails) ==
  IF fails
  THEN Out(500, "handler", "application/json",
           ErrorBody("Failed to generate metrics", 0), {}, NoLabel, f)
  ELSE Out(200, "handler", "text/plain",
           Body("metrics", NoFields, "", 0, <<>>, <<>>, {}), {}, NoLabel, f)

\* A handler that adds the correlation id to the manifest it sends.
VersionsHandlerStampsId(cid, f) ==
  LET calls == {Call("readFileSync", ManifestPath, f.manifest)}
      y == YamlLoad(f.manifest.text)
  IN
  IF f.manifest.kind # "file" \/ y.threw \/ ~y.defined
  THEN Out(500, "handler", "application/json",
           ErrorBody("Failed to load versions", cid), calls, NoLabel, f)
  ELSE Out(200, "handler", "application/json",
           Body("json", {"correlationId"}, "", cid, <<>>, JsonStringify(y.tree), {}),
           calls, NoLabel, f)

\* app.get('/versions'): Object.keys(versions) throws on an undefined tree.
VersionsHandler(cid, f) ==
  LET calls == {Call("readFileSync", ManifestPath, f.manifest)}
      y == YamlLoad(f.manifest.text)
  IN
  IF f.manifest.kind # "file" \/ y.threw \/ ~y.defined
  THEN Out(500, "handler", "application/json",
           ErrorBody("Failed to load versions", cid), calls, NoLabel, f)
  ELSE Out(200, "handler", "application/json", TreeBody(y), calls, NoLabel, f)

\* An aggregate handler that sends the stored text as it is.
AggregateHandlerSendsText(who, cid, f) ==
  LET calls == {Call("readFileSync", AggPath, NodeAt(f, AggPath))}
      r == ReadFileSync(f, AggPath)
      failed == IF who = "frontend" THEN "Failed to load frontend API spec"
                ELSE "Failed to load backend API spec"
  IN
  IF r.threw
  THEN Out(500, "handler", "application/json", ErrorBody(failed, cid), calls,
           NoLabel, f)
  ELSE Out(200, "handler", "application/yaml", TextBody(r.text), calls,
           Label("openapi", <<who>>), f)

\* app.get('/frontend/openapi.json') and app.get('/backend/openapi.json'),
\* after the strict limiter; "who" is 'frontend' or 'backend'.
AggregateHandler(who, cid, f) ==
  LET calls == {Call("readFileSync", AggPath, NodeAt(f, AggPath))}
      r == ReadFileSync(f, AggPath)
      y == YamlLoad(r.text)
      failed == IF who = "frontend" THEN "Failed to load frontend API spec"
                ELSE "Failed to load backend API spec"
  IN
  IF r.threw \/ y.threw
  THEN Out(500, "handler", "application/json", ErrorBody(failed, cid), calls,
           NoLabel, f)
  ELSE Out(200, "handler", "application/json", TreeBody(y), calls,
           Label("openapi", <<who>>), f)

\* A listing that leaves out the categories whose root cannot be read.
SpecsHandlerPartial(cid, f) ==
  LET o == ReaddirSync(f, "openapi")
      a == ReaddirSync(f, "asyncapi")
      p == ReaddirSync(f, "protobuf")
      calls ==
        {Call("readdirSync", Root(cat), NodeAt(f, Root(cat))) : cat \in Categories}
      listing ==
        {<<"openapi", n>> : n \in {m \in o.names : ~o.threw /\ EndsWith(m, "yaml")}}
        \cup {<<"asyncapi", n>> : n \in {m \in a.names : ~a.threw /\ EndsWith(m, "yaml")}}
        \cup {<<"protobuf", n>> : n \in {m \in p.names : ~p.threw /\ EndsWith(m, "proto")}}
  IN
  Out(200, "handler", "application/json",
      Body("json",
           {"openapi", "asyncapi", "protobuf", "frontend_spec",
            "backend_spec", "metrics", "health", "versions"},
           "", 0, <<>>, <<>>, listing),
      calls, NoLabel, f)

\* A listing that first creates the category roots that are missing.
SpecsHandlerCreatesRoots(cid, f) ==
  LET g == [f EXCEPT !.dirs = [cat \in Categories |-> TRUE]]
      names == [cat \in Categories |-> ReaddirSync(g, cat).names]
  IN
  Out(200, "handler", "application/json",
      Body("json",
           {"openapi", "asyncapi", "protobuf", "frontend_spec",
            "backend_spec", "metrics", "health", "versions"},
           "", 0, <<>>, <<>>,
           {<<"openapi", n>> : n \in {m \in names["openapi"] : EndsWith(m, "yaml")}}
           \cup {<<"asyncapi", n>> : n \in {m \in names["asyncapi"] : EndsWith(m, "yaml")}}
           \cup {<<"protobuf", n>> : n \in {m \in names["protobuf"] : EndsWith(m, "proto")}}),
      {Call("readdirSync", Root(cat), NodeAt(g, Root(cat))) : cat \in Categories},
      NoLabel, g)

\* app.get('/specs')
SpecsHandler(cid, f) ==
  LET o == ReaddirSync(f, "openapi")
      a == ReaddirSync(f, "asyncapi")
      p == ReaddirSync(f, "protobuf")
      calls ==
        {Call("readdirSync", Root("openapi"), NodeAt(f, Root("openapi")))}
        \cup (IF o.threw THEN {}
              ELSE {Call("readdirSync", Root("asyncapi"), NodeAt(f, Root("asyncapi")))})
        \cup (IF o.threw \/ a.threw THEN {}
              ELSE {Call("readdirSync", Root("protobuf"), NodeAt(f, Root("protobuf")))})
      listing ==
        {<<"openapi", n>> : n \in {m \in o.names : EndsWith(m, "yaml")}}
        \cup {<<"asyncapi", n>> : n \in {m \in a.names : EndsWith(m, "yaml")}}
        \cup {<<"protobuf", n>> : n \in {m \in p.names : EndsWith(m, "proto")}}
  IN
  IF o.threw \/ a.threw \/ p.threw
  THEN Out(500, "handler", "application/json",
           ErrorBody("Failed to list specifications", cid), calls, NoLabel, f)
  ELSE Out(200, "handler", "application/json",
           Body("json",
                {"openapi", "asyncapi", "protobuf", "frontend_spec",
                 "backend_spec", "metrics", "health", "versions"},
                "", 0, <<>>, <<>>, listing),
           calls, NoLabel, f)

\* An unmatched path answered by the fallback error middleware.
UnmatchedHandlerFallback(cid, f) ==
  Out(500, "errorMiddleware", "application/json", ErrorMiddlewareBody(cid), {},
      NoLabel, f)

\* A path no route matches: Express's final handler answers.
UnmatchedHandler(cid, f) ==
  Out(404, "finalhandler", "text/html", FinalHandlerBody, {}, NoLabel, f)

\* ------------------------------------------------------------ rate limiters
\* MemoryStore.increment of express-rate-limit: a client's window starts with
\* its first request and is replaced once its resetTime has passed.
Hit(store, c, t, window) ==
  IF store.resetTime[c] <= t
  THEN [hits |-> [store.hits EXCEPT ![c] = 1],
        resetTime |-> [store.resetTime EXCEPT ![c] = t + window]]
  ELSE [store EXCEPT !.hits[c] = @ + 1]

EmptyStore == [hits |-> [c \in Clients |-> 0], resetTime |-> [c \in Clients |-> 0]]

\* A limiter that lets every request pass.
LimiterNeverRejects(store, c) == FALSE

\* limiter: rejects when totalHits > max, with the message object as the body
\* and a Retry-After header in seconds (standardHeaders: true).
LimiterRejects(store, c) == store.hits[c] > GlobalMax
LimiterOut(f) ==
  Out(429, "limiter", "application/json",
      Body("json", {"error", "retryAfter"},
           "Too many requests from this IP, please try again later.", 0,
           <<>>, <<>>, {}),
      {}, NoLabel, f)

\* A strictLimiter that lets one request more pass in each window.
StrictLimiterRejectsLate(store, c) == store.hits[c] > StrictMax + 1

\* The comparison with >= in place of >.
StrictLimiterRejectsAtMax(store, c) == store.hits[c] >= StrictMax

\* strictLimiter (legacyHeaders default to true, so Retry-After is set too).
StrictLimiterRejects(store, c) == store.hits[c] > StrictMax
StrictLimiterOut(f) ==
  Out(429, "strictLimiter", "application/json",
      Body("json", {"error", "retryAfter"},
           "Rate limit exceeded for this endpoint, please try again later.", 0,
           <<>>, <<>>, {}),
      {}, NoLabel, f)

\* The Retry-After header of a rejection: the seconds until the window resets.
RetryAfterSeconds(store, c, t) == (store.resetTime[c] - t) * 60

\* Counter.inc(labels)
Inc(counter, label) ==
  IF label \in DOMAIN counter THEN [counter EXCEPT ![label] = @ + 1]
  ELSE counter @@ (label :> 1)

\* ------------------------------------------------------------------ state
VARIABLES
  fs,                \* the contract files: [dirs, files, manifest]
  globalStore,       \* the store of limiter
  strictStore,       \* the store of strictLimiter
  now,               \* Date.now(), in minutes
  apiSpecDownloads,  \* counter api_spec_downloads_total, by label
  httpRequestsTotal, \* counter http_requests_total, by label
  req,               \* the request served last
  res,               \* the response to it
  fsCalls,           \* the filesystem calls made while serving it
  wanted,            \* the file name and Accept header this run's clients send
  admitted,          \* per client, the minutes at which limiter let a request pass
  arrivals,          \* per client, its requests for the aggregate file:
                     \* <<minute, 'frontend', 'backend' or 'generic' (the
                     \* route), passed the limiters, rendered as JSON>>
  nreq,              \* requests served so far
  nchg,              \* changes made to the files from outside so far
  nticks,            \* times the clock was advanced so far
  pc,                \* where the request in flight stands; "idle" with none
  sends              \* responses written so far to the request served last

vars ==
  <<fs, globalStore, strictStore, now, apiSpecDownloads, httpRequestsTotal,
    req, res, fsCalls, wanted, admitted, arrivals, nreq, nchg, nticks,
    pc, sends>>

NoRequest ==
  [client |-> "none", route |-> "none", name |-> <<>>, accept |-> <<>>,
   correlationId |-> 0, at |-> 0]
NoResponse ==
  [status |-> 0, by |-> "none", contentType |-> "none", body |-> FinalHandlerBody,
   xCorrelationId |-> 0, retryAfter |-> -1]

\* The server after app.listen, before its first request, over the contract
\* files f, n of the changes from outside being spent.
StartedAt(f, n) ==
  /\ fs = f
  /\ globalStore = EmptyStore
  /\ strictStore = EmptyStore
  /\ now = 0
  /\ apiSpecDownloads = <<>>
  /\ httpRequestsTotal = <<>>
  /\ req = NoRequest
  /\ res = NoResponse
  /\ fsCalls = {}
  /\ admitted = [c \in Clients |-> <<>>]
  /\ arrivals = [c \in Clients |-> <<>>]
  /\ nreq = 0
  /\ nchg = n
  /\ nticks = 0
  /\ pc = "idle"
  /\ sends = 0

StartedWith(f) == StartedAt(f, 0)

Started == StartedWith(Provisioned)

Init ==
  /\ Started
  /\ wanted \in [name : FileNames, accept : Accepts]

\* uuidv4(): an id no earlier request had.
FreshId == nreq + 1

\* The file stores a handler can see after the one it started with, when the
\* file at "path" is changed from outside while the handler runs.
Later(f, path) ==
  IF nchg < MaxFsChanges /\ path \in StoredPaths
  THEN {[f EXCEPT !.files[path] = n] : n \in Nodes}
  ELSE {f}

\* The outcome is a successful JSON rendering of the aggregate file: the file
\* was read and parsed, and the tree sent with status 200.
JsonRendering(o) ==
  /\ o.status = 200
  /\ o.body.kind # "text"
  /\ \E call \in o.calls : call.op = "readFileSync" /\ call.path = AggPath

\* One request through the chain: app.use(limiter), the tracing middleware
\* with its 'finish' listener, strictLimiter on the routes that have it
\* ("who" is 'frontend' or 'backend' there, 'none' elsewhere), then the
\* route's handler, whose doing is "out".
Chain(c, route, name, accept, who, out) ==
  LET g == Hit(globalStore, c, now, GlobalWindowMin)
      gl == LimiterRejects(g, c)
      s == Hit(strictStore, c, now, StrictWindowMin)
      strict == who # "none"
      sl == strict /\ StrictLimiterRejects(s, c)
      o == IF gl THEN LimiterOut(fs) ELSE IF sl THEN StrictLimiterOut(fs) ELSE out
      cid == IF gl THEN 0 ELSE FreshId
  IN
  /\ globalStore' = g
  /\ strictStore' = IF ~gl /\ strict THEN s ELSE strictStore
  /\ admitted' = IF gl THEN admitted ELSE [admitted EXCEPT ![c] = Append(@, now)]
  /\ arrivals' =
       IF strict \/ (route = "/openapi/:spec" /\ name = AggName)
       THEN [arrivals EXCEPT
               ![c] = Append(@, <<now, IF strict THEN who ELSE "generic",
                                  ~gl /\ ~sl, JsonRendering(o)>>)]
       ELSE arrivals
  /\ req' = [client |-> c, route |-> route, name |-> name, accept |-> accept,
             correlationId |-> cid, at |-> now]
  /\ res' = [status |-> o.status, by |-> o.by, contentType |-> o.contentType,
             body |-> o.body, xCorrelationId |-> cid,
             retryAfter |-> IF gl THEN RetryAfterSeconds(g, c, now)
                            ELSE IF sl THEN RetryAfterSeconds(s, c, now)
                            ELSE -1]
  /\ fsCalls' = o.calls
  /\ apiSpecDownloads' =
       IF o.inc = NoLabel THEN apiSpecDownloads ELSE Inc(apiSpecDownloads, o.inc)
  /\ httpRequestsTotal' =
       IF gl THEN httpRequestsTotal
       ELSE Inc(httpRequestsTotal, <<"GET", route, o.status>>)
  /\ fs' = o.fs
  /\ nchg' = IF o.fs = fs THEN nchg ELSE nchg + 1
  /\ nreq' = nreq + 1
  /\ sends' = 1
  /\ UNCHANGED <<now, wanted, nticks, pc>>

\* ---------------------------------------------------------------- actions
GetHealth(c) == Chain(c, "/health", <<>>, <<>>, "none", HealthHandler(FreshId, fs))

GetMetrics(c) ==
  \E fails \in BOOLEAN :
    Chain(c, "/metrics", <<>>, <<>>, "none", MetricsHandler(FreshId, fs, fails))

GetVersions(c) ==
  Chain(c, "/versions", <<>>, <<>>, "none", VersionsHandler(FreshId, fs))

GetFrontend(c) ==
  Chain(c, "/frontend/openapi.json", <<>>, wanted.accept, "frontend",
        AggregateHandler("frontend", FreshId, fs))

GetBackend(c) ==
  Chain(c, "/backend/openapi.json", <<>>, wanted.accept, "backend",
        AggregateHandler("backend", FreshId, fs))

GetOpenapi(c) ==
  \E f2 \in Later(fs, PathJoin("openapi", wanted.name)) :
    Chain(c, "/openapi/:spec", wanted.name, wanted.accept, "none",
          OpenapiHandler(wanted.name, wanted.accept, FreshId, fs, f2))

GetAsyncapi(c) ==
  \E f2 \in Later(fs, PathJoin("asyncapi", wanted.name)) :
    Chain(c, "/asyncapi/:spec", wanted.name, wanted.accept, "none",
          AsyncapiHandler(wanted.name, wanted.accept, FreshId, fs, f2))

GetProtobuf(c) ==
  \E f2 \in Later(fs, PathJoin("protobuf", wanted.name)) :
    \E f3 \in (IF f2 = fs THEN Later(fs, PathJoin("protobuf", wanted.name)) ELSE {f2}) :
      Chain(c, "/protobuf/:file", wanted.name, <<>>, "none",
            ProtobufHandler(wanted.name, FreshId, fs, f2, f3))

GetSpecs(c) == Chain(c, "/specs", <<>>, <<>>, "none", SpecsHandler(FreshId, fs))

GetUnmatched(c) ==
  Chain(c, "/unknown", <<>>, <<>>, "none", UnmatchedHandler(FreshId, fs))

\* A request whose JSON body express.json() cannot parse: the error skips
\* limiter, the tracing middleware and the routes and reaches the fallback
\* error middleware, where req.correlationId is undefined.
JsonBodyError(c) ==
  /\ req' = [client |-> c, route |-> "any", name |-> <<>>, accept |-> <<>>,
             correlationId |-> 0, at |-> now]
  /\ res' = [status |-> 500, by |-> "errorMiddleware",
             contentType |-> "application/json", body |-> ErrorMiddlewareBody(0),
             xCorrelationId |-> 0, retryAfter |-> -1]
  /\ fsCalls' = {}
  /\ nreq' = nreq + 1
  /\ sends' = 1
  /\ UNCHANGED <<fs, globalStore, strictStore, now, apiSpecDownloads,
                 httpRequestsTotal, wanted, admitted, arrivals, nchg, nticks, pc>>

\* The clients send another Accept header from now on.
ChooseAccept ==
  /\ \E a \in Accepts \ {wanted.accept} : wanted' = [wanted EXCEPT !.accept = a]
  /\ UNCHANGED <<fs, globalStore, strictStore, now, apiSpecDownloads,
                 httpRequestsTotal, req, res, fsCalls, admitted, arrivals,
                 nreq, nchg, nticks, pc, sends>>

\* The files change from outside (deploys, operators); the server has no part.
Outside(f) ==
  /\ nchg < MaxFsChanges
  /\ f # fs
  /\ fs' = f
  /\ nchg' = nchg + 1
  /\ UNCHANGED <<globalStore, strictStore, now, apiSpecDownloads,
                 httpRequestsTotal, req, res, fsCalls, wanted, admitted,
                 arrivals, nreq, nticks, pc, sends>>

FileChange == \E p \in StoredPaths, n \in Nodes : Outside([fs EXCEPT !.files[p] = n])

DirRemoved == \E cat \in Categories : Outside([fs EXCEPT !.dirs[cat] = FALSE])

ManifestChange == \E n \in Nodes \ {DirNode} : Outside([fs EXCEPT !.manifest = n])

\* d minutes pass.
Tick(d) ==
  /\ nticks < MaxTicks
  /\ now' = now + d
  /\ nticks' = nticks + 1
  /\ UNCHANGED <<fs, globalStore, strictStore, apiSpecDownloads,
                 httpRequestsTotal, req, res, fsCalls, wanted, admitted,
                 arrivals, nreq, nchg, pc, sends>>

\* ---------------------------------------------------------- specifications
\* The named routes, asked by one client with every file name and Accept
\* header of FileNames and Accepts, over contract files that change.
Next ==
  \/ nreq < MaxRequests /\ GetOpenapi("ip1")
  \/ nreq < MaxRequests /\ GetAsyncapi("ip1")
  \/ nreq < MaxRequests /\ GetProtobuf("ip1")
  \/ FileChange
  \/ DirRemoved

Spec == Init /\ [][Next]_vars

\* The clients of the other specifications ask for one file only.
InitFixed ==
  /\ Started
  /\ wanted = [name |-> AggName, accept |-> <<>>]

\* The fixed routes behind the middleware chain, over contract files that
\* change (/backend/openapi.json, the twin of /frontend/openapi.json, is left
\* to SpecRate and SpecRender).
NextChain ==
  \/ nreq < MaxChainRequests /\ \E c \in Clients : GetHealth(c)
  \/ nreq < MaxChainRequests /\ \E c \in Clients : GetMetrics(c)
  \/ nreq < MaxChainRequests /\ \E c \in Clients : GetVersions(c)
  \/ nreq < MaxChainRequests /\ \E c \in Clients : GetSpecs(c)
  \/ nreq < MaxChainRequests /\ \E c \in Clients : GetFrontend(c)
  \/ nreq < MaxChainRequests /\ \E c \in Clients : GetUnmatched(c)
  \/ nreq < MaxChainRequests /\ \E c \in Clients : JsonBodyError(c)
  \/ DirRemoved
  \/ ManifestChange

SpecChain == InitFixed /\ [][NextChain]_vars

\* The two aggregate routes behind strictLimiter, with its window passing.
NextRate ==
  \/ nreq < MaxRateRequests /\ \E c \in Clients : GetFrontend(c)
  \/ nreq < MaxRateRequests /\ \E c \in Clients : GetBackend(c)
  \/ Tick(StrictWindowMin)

SpecRate == InitFixed /\ [][NextRate]_vars

\* limiter alone, with the clock advanced to the end of its window.
NextWindow ==
  \/ nreq < MaxWindowRequests /\ \E c \in Clients : GetHealth(c)
  \/ \E d \in {StrictWindowMin, GlobalWindowMin - StrictWindowMin} : Tick(d)

SpecWindow == InitFixed /\ [][NextWindow]_vars

\* ------------------------------------------------ one request, step by step
\* The route that serves a category's files.
SpecPath(cat) == IF cat = "protobuf" THEN "/protobuf/:file" ELSE "/openapi/:spec"

\* No request is in flight: none has arrived yet, the last one was answered
\* in full ("idle"), or its socket was destroyed after its response had
\* started ("closed").
Over == pc \in {"idle", "closed"}

\* What a step of the chain leaves alone, whichever it is.
chainFrame ==
  <<fs, strictStore, now, req, wanted, arrivals, nreq, nchg, nticks>>

\* Control moves on without anything written to the response.
Goto(label) ==
  /\ pc' = label
  /\ UNCHANGED <<res, sends, httpRequestsTotal>>

\* res.status(..).json(..), res.send(..), res.end(..): the whole response in
\* one step, seen by the 'finish' listener of the tracing middleware when the
\* request has passed it. Node throws ERR_HTTP_HEADERS_SENT when the headers
\* of a response are out already; control then goes to "thrown".
Write(status, by, ctype, body, retry, done, thrown) ==
  IF sends = 0
  THEN /\ res' = [status |-> status, by |-> by, contentType |-> ctype,
                  body |-> body, xCorrelationId |-> req.correlationId,
                  retryAfter |-> retry]
       /\ sends' = 1
       /\ httpRequestsTotal' =
            IF req.correlationId = 0 THEN httpRequestsTotal
            ELSE Inc(httpRequestsTotal, <<"GET", req.route, status>>)
       /\ pc' = done
  ELSE Goto(thrown)

\* A request arrives and enters the chain at app.use(limiter).
Arrive(c, route) ==
  /\ Over
  /\ req' = [client |-> c, route |-> route,
             name |-> IF route = "/metrics" THEN <<>> ELSE wanted.name,
             accept |-> IF route = "/metrics" THEN <<>> ELSE wanted.accept,
             correlationId |-> 0, at |-> now]
  /\ res' = NoResponse
  /\ sends' = 0
  /\ fsCalls' = {}
  /\ nreq' = nreq + 1
  /\ pc' = "limiter"
  /\ UNCHANGED <<fs, globalStore, strictStore, now, apiSpecDownloads,
                 httpRequestsTotal, wanted, admitted, arrivals, nchg, nticks>>

\* app.use(limiter): answers 429 itself or calls next().
LimiterStep ==
  LET g == Hit(globalStore, req.client, now, GlobalWindowMin) IN
  /\ pc = "limiter"
  /\ globalStore' = g
  /\ IF LimiterRejects(g, req.client)
     THEN /\ Write(429, "limiter", "application/json", LimiterOut(fs).body,
                   RetryAfterSeconds(g, req.client, now), "idle", "errorMiddleware")
          /\ UNCHANGED <<admitted, req>>
     ELSE /\ admitted' = [admitted EXCEPT ![req.client] = Append(@, now)]
          /\ req' = [req EXCEPT !.correlationId = nreq]
          /\ Goto(CASE req.route = "/metrics" -> "metrics_await"
                    [] req.route = "/openapi/:spec" -> "openapi_validate"
                    [] req.route = "/protobuf/:file" -> "protobuf_validate")
  /\ UNCHANGED <<fs, strictStore, now, wanted, arrivals, nreq, nchg, nticks,
                 fsCalls, apiSpecDownloads>>

\* app.get('/metrics'): res.end(await register.metrics()); the promise
\* resolves or rejects.
MetricsAwait ==
  /\ pc = "metrics_await"
  /\ \E fails \in BOOLEAN :
       IF fails THEN Goto("metrics_catch")
       ELSE Write(200, "handler", "text/plain",
                  Body("metrics", NoFields, "", 0, <<>>, <<>>, {}), -1,
                  "metrics_log", "metrics_catch")
  /\ UNCHANGED <<chainFrame, globalStore, admitted, fsCalls, apiSpecDownloads>>

\* logger.info after res.end: the handler returns.
MetricsLog ==
  /\ pc = "metrics_log"
  /\ Goto("idle")
  /\ UNCHANGED <<chainFrame, globalStore, admitted, fsCalls, apiSpecDownloads>>

\* The catch block of /metrics; an exception in it is an unhandled rejection.
MetricsCatch ==
  /\ pc = "metrics_catch"
  /\ Write(500, "handler", "application/json",
           ErrorBody("Failed to generate metrics", 0), -1, "idle", "rejected")
  /\ UNCHANGED <<chainFrame, globalStore, admitted, fsCalls, apiSpecDownloads>>

\* app.get('/openapi/:spec'): the name test and its early return.
OpenapiValidate ==
  /\ pc = "openapi_validate"
  /\ IF InvalidSpecName(req.name)
     THEN Write(400, "handler", "application/json",
                ErrorBody(OpenapiMsg.invalid, req.correlationId), -1,
                "idle", "errorMiddleware")
     ELSE Goto("openapi_exists")
  /\ UNCHANGED <<chainFrame, globalStore, admitted, fsCalls, apiSpecDownloads>>

\* fs.existsSync and its early return.
OpenapiExists ==
  LET filePath == PathJoin("openapi", req.name) IN
  /\ pc = "openapi_exists"
  /\ fsCalls' = fsCalls \cup {Call("existsSync", filePath, NodeAt(fs, filePath))}
  /\ IF ~ExistsSync(fs, filePath)
     THEN Write(404, "handler", "application/json",
                ErrorBody(OpenapiMsg.notFound, req.correlationId), -1,
                "idle", "errorMiddleware")
     ELSE Goto("openapi_try")
  /\ UNCHANGED <<chainFrame, globalStore, admitted, apiSpecDownloads>>

\* The try block: readFileSync, the download counter, then the text as it is
\* or yaml.load and res.json.
OpenapiTry ==
  LET filePath == PathJoin("openapi", req.name)
      r == ReadFileSync(fs, filePath)
      y == YamlLoad(r.text)
  IN
  /\ pc = "openapi_try"
  /\ fsCalls' = fsCalls \cup {Call("readFileSync", filePath, NodeAt(fs, filePath))}
  /\ apiSpecDownloads' =
       IF r.threw THEN apiSpecDownloads
       ELSE Inc(apiSpecDownloads, Label("openapi", req.name))
  /\ IF r.threw THEN Goto("openapi_catch")
     ELSE IF WantsYaml(req.accept)
     THEN Write(200, "handler", "application/yaml", TextBody(r.text), -1,
                "idle", "openapi_catch")
     ELSE IF y.threw THEN Goto("openapi_catch")
     ELSE Write(200, "handler", "application/json", TreeBody(y), -1,
                "idle", "openapi_catch")
  /\ UNCHANGED <<chainFrame, globalStore, admitted>>

\* The catch block of /openapi/:spec.
OpenapiCatch ==
  /\ pc = "openapi_catch"
  /\ Write(500, "handler", "application/json",
           ErrorBody(OpenapiMsg.failed, req.correlationId), -1,
           "idle", "errorMiddleware")
  /\ UNCHANGED <<chainFrame, globalStore, admitted, fsCalls, apiSpecDownloads>>

\* app.get('/protobuf/:file'): the name test and its early return.
ProtobufValidate ==
  /\ pc = "protobuf_validate"
  /\ IF InvalidProtoName(req.name)
     THEN Write(400, "handler", "application/json",
                ErrorBody("Invalid protobuf file name", req.correlationId), -1,
                "idle", "errorMiddleware")
     ELSE Goto("protobuf_exists")
  /\ UNCHANGED <<chainFrame, globalStore, admitted, fsCalls, apiSpecDownloads>>

\* fs.existsSync and its early return.
ProtobufExists ==
  LET filePath == PathJoin("protobuf", req.name) IN
  /\ pc = "protobuf_exists"
  /\ fsCalls' = fsCalls \cup {Call("existsSync", filePath, NodeAt(fs, filePath))}
  /\ IF ~ExistsSync(fs, filePath)
     THEN Write(404, "handler", "application/json",
                ErrorBody("Protobuf file not found", req.correlationId), -1,
                "idle", "errorMiddleware")
     ELSE Goto("protobuf_sync")
  /\ UNCHANGED <<chainFrame, globalStore, admitted, apiSpecDownloads>>

\* The try block up to the call of res.sendFile, which returns at once.
ProtobufTry ==
  LET filePath == PathJoin("protobuf", req.name) IN
  /\ pc = "protobuf_sync"
  /\ fsCalls' = fsCalls \cup {Call("statSync", filePath, NodeAt(fs, filePath))}
  /\ apiSpecDownloads' = Inc(apiSpecDownloads, Label("protobuf", req.name))
  /\ Goto(IF StatSyncThrows(fs, filePath) THEN "protobuf_catch"
          ELSE "protobuf_sendFile")
  /\ UNCHANGED <<chainFrame, globalStore, admitted>>

\* The catch block of /protobuf/:file.
ProtobufCatch ==
  /\ pc = "protobuf_catch"
  /\ Write(500, "handler", "application/json",
           ErrorBody("Failed to serve protobuf file", req.correlationId), -1,
           "idle", "errorMiddleware")
  /\ UNCHANGED <<chainFrame, globalStore, admitted, fsCalls, apiSpecDownloads>>

\* A res.sendFile whose callback drops every error.
SendFileOutcomeSwallows(node) ==
  IF node.kind = "file" THEN "protobuf_stream" ELSE "idle"

\* res.sendFile without a callback, once the file is opened: a file is
\* streamed, a directory (EISDIR) goes to next(), any other error to
\* next(err).
SendFileOutcome(node) ==
  CASE node.kind = "file" -> "protobuf_stream"
    [] node.kind = "dir" -> "finalhandler"
    [] OTHER -> "errorMiddleware"

\* res.sendFile at work, after the handler has returned: the headers and the
\* start of the file go out, or the error is handed on.
ProtobufSendFile ==
  LET filePath == PathJoin("protobuf", req.name)
      node == NodeAt(fs, filePath)
  IN
  /\ pc = "protobuf_sendFile"
  /\ fsCalls' = fsCalls \cup {Call("sendFile", filePath, node)}
  /\ pc' = SendFileOutcome(node)
  /\ IF node.kind = "file" /\ sends = 0
     THEN /\ res' = [status |-> 200, by |-> "handler", contentType |-> "text/plain",
                     body |-> TextBody(node.text),
                     xCorrelationId |-> req.correlationId, retryAfter |-> -1]
          /\ sends' = 1
     ELSE UNCHANGED <<res, sends>>
  /\ UNCHANGED <<chainFrame, globalStore, admitted, apiSpecDownloads,
                 httpRequestsTotal>>

\* The rest of the file is streamed: the response finishes, or reading fails
\* and the error goes to next(err) with the headers out.
ProtobufStream ==
  /\ pc = "protobuf_stream"
  /\ \E failed \in BOOLEAN :
       IF failed THEN Goto("errorMiddleware")
       ELSE /\ httpRequestsTotal' =
                 Inc(httpRequestsTotal, <<"GET", req.route, res.status>>)
            /\ pc' = "idle"
            /\ UNCHANGED <<res, sends>>
  /\ UNCHANGED <<chainFrame, globalStore, admitted, fsCalls, apiSpecDownloads>>

\* The fallback error middleware; what it throws goes to the final handler.
ErrorMiddleware ==
  /\ pc = "errorMiddleware"
  /\ Write(500, "errorMiddleware", "application/json",
           ErrorMiddlewareBody(req.correlationId), -1, "idle", "finalhandler")
  /\ UNCHANGED <<chainFrame, globalStore, admitted, fsCalls, apiSpecDownloads>>

\* Express's final handler: its page, or the socket destroyed when the
\* headers are out already.
FinalHandler ==
  /\ pc = "finalhandler"
  /\ Write(404, "finalhandler", "text/html", FinalHandlerBody, -1, "idle", "closed")
  /\ UNCHANGED <<chainFrame, globalStore, admitted, fsCalls, apiSpecDownloads>>

\* The file a request asks for changes from outside while the request is in
\* flight.
FileChangeInFlight ==
  /\ ~Over
  /\ \E cat \in {"openapi", "protobuf"}, n \in Nodes :
       /\ req.route = SpecPath(cat)
       /\ PathJoin(cat, req.name) \in StoredPaths
       /\ Outside([fs EXCEPT !.files[PathJoin(cat, req.name)] = n])

\* The event loop runs the next step of the request in flight.
Proceed ==
  \/ LimiterStep
  \/ MetricsAwait
  \/ MetricsLog
  \/ MetricsCatch
  \/ OpenapiValidate
  \/ OpenapiExists
  \/ OpenapiTry
  \/ OpenapiCatch
  \/ ProtobufValidate
  \/ ProtobufExists
  \/ ProtobufTry
  \/ ProtobufCatch
  \/ ProtobufSendFile
  \/ ProtobufStream
  \/ ErrorMiddleware
  \/ FinalHandler

\* One client on /metrics, /openapi/:spec and /protobuf/:file, each request
\* followed statement by statement while the files change, one request in
\* flight at a time; every step that is due is run in the end.
InitSend ==
  /\ Started
  /\ wanted \in [name : {AggName, <<"x", ".", "proto">>},
                 accept : {<<>>, <<"text/html", "application/yaml">>}]

NextSend ==
  \/ nreq < MaxSendRequests /\ Arrive("ip1", "/metrics")
  \/ nreq < MaxSendRequests /\ Arrive("ip1", "/openapi/:spec")
  \/ nreq < MaxSendRequests /\ Arrive("ip1", "/protobuf/:file")
  \/ LimiterStep
  \/ MetricsAwait
  \/ MetricsLog
  \/ MetricsCatch
  \/ OpenapiValidate
  \/ OpenapiExists
  \/ OpenapiTry
  \/ OpenapiCatch
  \/ ProtobufValidate
  \/ ProtobufExists
  \/ ProtobufTry
  \/ ProtobufCatch
  \/ ProtobufSendFile
  \/ ProtobufStream
  \/ ErrorMiddleware
  \/ FinalHandler
  \/ FileChangeInFlight

SpecSend == InitSend /\ [][NextSend]_vars /\ WF_vars(Proceed)

\* One client downloading the provisioned files on the named and the
\* aggregate routes, as JSON or as YAML, while the files change.
InitDownloads ==
  /\ Started
  /\ wanted \in [name : {AggName, <<"x", ".", "yaml">>, <<"x", ".", "proto">>},
                 accept : {<<>>, <<"text/html", "application/yaml">>}]

NextDownloads ==
  \/ nreq < MaxDownloadRequests /\ GetOpenapi("ip1")
  \/ nreq < MaxDownloadRequests /\ GetAsyncapi("ip1")
  \/ nreq < MaxDownloadRequests /\ GetProtobuf("ip1")
  \/ nreq < MaxDownloadRequests /\ GetFrontend("ip1")
  \/ nreq < MaxDownloadRequests /\ GetBackend("ip1")
  \/ FileChange

SpecDownloads == InitDownloads /\ [][NextDownloads]_vars

\* The contract files an image can be built with: the provisioned ones with
\* one entry or one directory different.
Stores ==
  {Provisioned}
  \cup {[Provisioned EXCEPT !.files[p] = n] : p \in StoredPaths, n \in Nodes}
  \cup {[Provisioned EXCEPT !.dirs[cat] = FALSE] : cat \in Categories}

InitListing ==
  /\ \E f \in Stores : StartedWith(f)
  /\ wanted \in [name : UNION {StoredNames(cat) : cat \in Categories},
                 accept : {<<>>}]

\* The listing and the named routes, asked by one client for the entries the
\* category roots hold.
NextListing ==
  \/ nreq < MaxListingRequests /\ GetSpecs("ip1")
  \/ nreq < MaxListingRequests /\ GetOpenapi("ip1")
  \/ nreq < MaxListingRequests /\ GetAsyncapi("ip1")
  \/ nreq < MaxListingRequests /\ GetProtobuf("ip1")

SpecListing == InitListing /\ [][NextListing]_vars

\* Every route, asked by one client, over contract files that nobody changes
\* from outside while the server runs (no change from outside is left).
InitQuiet ==
  /\ \E f \in Stores : StartedAt(f, MaxFsChanges)
  /\ wanted \in [name : {AggName, <<"x", ".", "proto">>}, accept : {<<>>}]

NextQuiet ==
  \/ nreq < MaxQuietRequests /\ GetHealth("ip1")
  \/ nreq < MaxQuietRequests /\ GetMetrics("ip1")
  \/ nreq < MaxQuietRequests /\ GetVersions("ip1")
  \/ nreq < MaxQuietRequests /\ GetSpecs("ip1")
  \/ nreq < MaxQuietRequests /\ GetFrontend("ip1")
  \/ nreq < MaxQuietRequests /\ GetBackend("ip1")
  \/ nreq < MaxQuietRequests /\ GetOpenapi("ip1")
  \/ nreq < MaxQuietRequests /\ GetAsyncapi("ip1")
  \/ nreq < MaxQuietRequests /\ GetProtobuf("ip1")
  \/ nreq < MaxQuietRequests /\ GetUnmatched("ip1")
  \/ nreq < MaxQuietRequests /\ JsonBodyError("ip1")

SpecQuiet == InitQuiet /\ [][NextQuiet]_vars

\* One client asking for the aggregate file on the generic route and on the
\* two aggregate routes, with changing Accept headers, while the file changes.
NextRender ==
  \/ nreq < MaxRenderRequests /\ GetOpenapi("ip1")
  \/ nreq < MaxRenderRequests /\ GetFrontend("ip1")
  \/ nreq < MaxRenderRequests /\ GetBackend("ip1")
  \/ ChooseAccept
  \/ \E n \in Nodes : Outside([fs EXCEPT !.files[AggPath] = n])

SpecRender == InitFixed /\ [][NextRender]_vars

\* ------------------------------------------------------------------ claims
YamlRoutes == {"/openapi/:spec", "/asyncapi/:spec"}
NamedRoutes == YamlRoutes \cup {"/protobuf/:file"}

\* The category a named route serves.
RouteCategory(route) ==
  CASE route = "/openapi/:spec" -> "openapi"
    [] route = "/asyncapi/:spec" -> "asyncapi"
    [] route = "/protobuf/:file" -> "protobuf"

\* The last request was to a named route and reached that route (no limiter
\* answered in its place).
ServedNamed == req.route \in NamedRoutes /\ res.by \notin {"limiter", "none"}

\* The name has a parent reference or a path separator.
Traversing(name) == IncludesDotDot(name) \/ Includes(name, "/")

\* "path" is an entry of the root directory of "cat", not the root itself and
\* nothing below, beside or above it.
DirectChild(path, cat) ==
  /\ Len(path) = 3
  /\ SubSeq(path, 1, 2) = Root(cat)
  /\ path[3] \notin {<<>>, <<".">>, <<".", ".">>}
  /\ ~Includes(path[3], "/")

\* C1: on the three named routes a file name that contains '..' or a path
\* separator is answered 400, and no filesystem call is made for the request.
C1_TraversalRejectedBeforeFs ==
  (ServedNamed /\ Traversing(req.name)) => (res.status = 400 /\ fsCalls = {})

C1_Witness ==
  /\ ServedNamed
  /\ IncludesDotDot(req.name)
  /\ Includes(req.name, "/")
  /\ res.status = 400
  /\ fsCalls = {}

\* C2: every path a named-route handler checks, stats, reads or sends is a
\* direct child of the root directory of the route's own category.
C2_CallsStayInCategoryRoot ==
  ServedNamed =>
    \A call \in fsCalls : DirectChild(call.path, RouteCategory(req.route))

C2_Witness ==
  /\ ServedNamed
  /\ Includes(req.name, "\\")
  /\ \E call \in fsCalls : call.op = "existsSync"

\* C3: a request with a valid name for which no regular file is stored,
\* also one whose file is gone or is no regular file when the handler reads
\* it, is answered 404.
C3_MissingFileIs404 ==
  (ServedNamed /\ \E call \in fsCalls : call.node.kind # "file")
    => res.status = 404

\* A text yaml.load turns into a document tree.
WellFormed(text) == ~YamlLoad(text).threw /\ YamlLoad(text).defined

\* The last request read a well-formed file on a YAML route.
ReadWellFormed(call) ==
  /\ req.route \in YamlRoutes
  /\ res.by \notin {"limiter", "none"}
  /\ call \in fsCalls
  /\ call.op = "readFileSync"
  /\ call.node.kind = "file"
  /\ WellFormed(call.node.text)

\* C4: a well-formed OpenAPI or AsyncAPI file is answered 200; as
\* application/yaml with the stored text verbatim when Accept contains
\* 'application/yaml', as application/json with the parsed tree otherwise.
C4_ContentNegotiation ==
  \A call \in fsCalls :
    ReadWellFormed(call) =>
      /\ res.status = 200
      /\ IF Includes(req.accept, "application/yaml")
         THEN /\ res.contentType = "application/yaml"
              /\ res.body.kind = "text"
              /\ res.body.text = call.node.text
         ELSE /\ res.contentType = "application/json"
              /\ res.body.kind = "json"
              /\ res.body.tree = JsonStringify(LoadLines(call.node.text))

C4_Witness ==
  /\ \E call \in fsCalls : ReadWellFormed(call)
  /\ Len(req.accept) > 1
  /\ res.contentType = "application/yaml"
  /\ res.body.text # <<>>

\* The name's extension is not the one the route's category requires.
WrongExtension(route, name) ==
  IF route = "/protobuf/:file" THEN ~EndsWith(name, "proto")
  ELSE ~EndsWith(name, "yaml") /\ ~EndsWith(name, "yml")

\* C5: a file name with the wrong extension for the route is answered 400,
\* whether or not a file of that name exists.
C5_WrongExtensionIs400 ==
  (ServedNamed /\ WrongExtension(req.route, req.name)) => res.status = 400

C5_Witness ==
  /\ ServedNamed
  /\ req.route = "/protobuf/:file"
  /\ req.name = <<"x", ".", "yaml">>
  /\ ExistsSync(fs, PathJoin("protobuf", req.name))
  /\ res.status = 400

\* C6: on /openapi and /asyncapi a '.yml' name without '..' and separator is
\* never answered 400, and /specs lists the '.yml' files of the two
\* categories.
C6_YmlAccepted ==
  /\ (ServedNamed /\ req.route \in YamlRoutes /\ EndsWith(req.name, "yml")
        /\ ~Traversing(req.name))
       => res.status # 400
  /\ (req.route = "/specs" /\ res.status = 200)
       => \A call \in fsCalls :
            \A n \in StoredNames(CatOf(call.path)) :
              (CatOf(call.path) # "protobuf" /\ EndsWith(n, "yml")
                 /\ NodeAt(fs, PathJoin(CatOf(call.path), n)).kind # "absent")
                => <<CatOf(call.path), n>> \in res.body.listing

\* How many of the requests in "log" satisfy Keep.
Count(log, Keep(_)) == Cardinality({i \in DOMAIN log : Keep(log[i])})

\* The requests the last request's client has sent to "who" ('frontend',
\* 'backend') in the minute of the last request.
SentInMinute(whos) ==
  LET InMinute(a) == a[1] = req.at /\ a[2] \in whos
  IN Count(arrivals[req.client], InMinute)

\* C7: once more than max (100) requests of a client to
\* /frontend/openapi.json have arrived in one strictLimiter window, a further
\* one in that window is answered 429 with a numeric Retry-After; the first
\* max requests of the window are not rejected by strictLimiter.
C7_StrictLimit ==
  req.route = "/frontend/openapi.json" =>
    /\ SentInMinute({"frontend"}) > StrictMax
         => (res.status = 429 /\ res.retryAfter >= 0)
    /\ SentInMinute({"frontend", "backend"}) <= StrictMax
         => res.by # "strictLimiter"

C7_Witness ==
  /\ req.route = "/frontend/openapi.json"
  /\ SentInMinute({"frontend"}) > StrictMax
  /\ res.status = 429
  /\ res.by = "strictLimiter"
  /\ res.retryAfter = StrictWindowMin * 60

\* The requests of client c that limiter let pass from minute t on, for one
\* window length.
AdmittedFrom(c, t) ==
  LET InInterval(a) == t <= a /\ a < t + GlobalWindowMin
  IN Count(admitted[c], InInterval)

\* C8 as claimed: in every interval of 15 minutes, whatever its start, limiter
\* lets at most max (1000) requests of one client pass.
C8_RollingWindow ==
  \A c \in Clients : \A i \in DOMAIN admitted[c] :
    AdmittedFrom(c, admitted[c][i]) <= GlobalMax

\* C8 as amended: limiter lets at most max requests of one client pass in
\* one of its windows (from the request that opens it to its resetTime), and
\* at most twice max in any interval of 15 minutes.
C8_FixedWindow ==
  \A c \in Clients :
    /\ AdmittedFrom(c, globalStore.resetTime[c] - GlobalWindowMin) <= GlobalMax
    /\ \A i \in DOMAIN admitted[c] :
         AdmittedFrom(c, admitted[c][i]) <= 2 * GlobalMax

C8_Witness ==
  \E c \in Clients :
    /\ res.status = 429
    /\ req.client = c
    /\ \E i \in DOMAIN admitted[c] : AdmittedFrom(c, admitted[c][i]) > GlobalMax

\* C9 as claimed: GET /health is answered 200 for every request, after any
\* earlier requests and in every state of the contract directories and the
\* version manifest.
C9_HealthAlways200 == req.route = "/health" => res.status = 200

\* C9 as amended: GET /health is answered 200 in every state of the contract
\* directories and the version manifest, unless limiter rejects the request.
C9_HealthAdmittedIs200 ==
  (req.route = "/health" /\ res.by # "limiter")
    => (res.status = 200 /\ res.by = "handler")

C9_Witness ==
  /\ req.route = "/health"
  /\ res.status = 200
  /\ \E cat \in Categories : ~fs.dirs[cat]
  /\ \E c \in Clients : c # req.client /\ admitted[c] # <<>>

\* C10: every error response (400, 404, 429, 500) has a JSON body with an
\* 'error' field and a 'correlationId' field that is the request's
\* correlation id.
C10_ErrorBodyShape ==
  res.status \in {400, 404, 429, 500} =>
    /\ res.body.kind = "json"
    /\ {"error", "correlationId"} \subseteq res.body.fields
    /\ res.body.error # ""
    /\ req.correlationId # 0
    /\ res.body.correlationId = req.correlationId

\* C11: every response the server sends carries an X-Correlation-ID header,
\* also a 429 of limiter, a 500 for an error raised before the tracing
\* middleware, and the answer to a path no route matches.
C11_EveryResponseHasCorrelationId == res.by # "none" => res.xCorrelationId # 0

\* The error string a route's catch block answers with.
FailureString(route) ==
  CASE route = "/openapi/:spec" -> "Failed to parse specification"
    [] route = "/asyncapi/:spec" -> "Failed to parse AsyncAPI specification"
    [] route = "/protobuf/:file" -> "Failed to serve protobuf file"
    [] route = "/versions" -> "Failed to load versions"
    [] route = "/frontend/openapi.json" -> "Failed to load frontend API spec"
    [] route = "/backend/openapi.json" -> "Failed to load backend API spec"
    [] route = "/specs" -> "Failed to list specifications"
    [] route = "/metrics" -> "Failed to generate metrics"
    [] OTHER -> "Internal server error"

ReadUnparseable(call) ==
  /\ req.route \in YamlRoutes
  /\ res.by \notin {"limiter", "none"}
  /\ call \in fsCalls
  /\ call.op = "readFileSync"
  /\ call.node.kind = "file"
  /\ YamlLoad(call.node.text).threw

\* C13: an existing OpenAPI or AsyncAPI file whose text is not parseable
\* YAML, asked for in the default (JSON) rendering, is answered 500.
C13_UnparseableIs500 ==
  \A call \in fsCalls :
    (ReadUnparseable(call) /\ ~Includes(req.accept, "application/yaml"))
      => res.status = 500

C13_Witness ==
  /\ \E call \in fsCalls : ReadUnparseable(call) /\ call.node.text = DocBroken
  /\ req.accept = <<"application/json">>
  /\ res.status = 500
  /\ res.body.error = FailureString(req.route)

\* C14: apart from rate-limit rejections GET /protobuf/:file answers 200, 400
\* or 404 and never 500, also when the file is removed between the existence
\* check and the send; a 200 is text/plain with the stored text.
C14_ProtobufNever500 ==
  (req.route = "/protobuf/:file" /\ res.by \notin {"limiter", "none"}) =>
    /\ res.status \in {200, 400, 404}
    /\ res.status = 200 =>
         /\ res.contentType = "text/plain"
         /\ \E call \in fsCalls :
              /\ call.op = "sendFile"
              /\ call.node.kind = "file"
              /\ res.body = TextBody(call.node.text)

\* The step serves a request to the same YAML route and file name as the
\* request before it, and both requests read the same well-formed text.
SameFileAgain ==
  /\ req.route \in YamlRoutes
  /\ req'.route = req.route
  /\ req'.name = req.name
  /\ req'.client = req.client
  /\ nreq' = nreq + 1
  /\ res.by = "handler"
  /\ res'.by = "handler"
  /\ \E c1 \in fsCalls, c2 \in fsCalls' :
       /\ c1.op = "readFileSync"
       /\ c2.op = "readFileSync"
       /\ c1.node = c2.node
       /\ c1.node.kind = "file"
       /\ WellFormed(c1.node.text)

\* C15: of two requests for the same well-formed OpenAPI or AsyncAPI file
\* that differ in the Accept header only, one asking for YAML and one not,
\* both are answered 200 and the YAML body, parsed, is a tree equal to the
\* JSON body.
C15_RoundTrip ==
  [][(SameFileAgain /\ WantsYaml(req.accept) # WantsYaml(req'.accept)) =>
       LET y == IF WantsYaml(req.accept) THEN res ELSE res'
           j == IF WantsYaml(req.accept) THEN res' ELSE res
       IN /\ y.status = 200
          /\ j.status = 200
          /\ YamlLoad(y.body.text).tree = j.body.tree]_vars

AggregateRoutes == {"/frontend/openapi.json", "/backend/openapi.json"}

\* The body that the text of a file and an Accept header determine.
Rendering(text, accept) ==
  IF Includes(accept, "application/yaml") THEN TextBody(text)
  ELSE TreeBody(YamlLoad(text))

\* C16: the body of a successful render is determined by the text read for
\* the request and the Accept header alone (by the text alone on the
\* aggregate routes), whatever requests were served before, whatever the file
\* held before, and whatever the counters and the correlation id are.
C16_BodyFromContentAndAccept ==
  \A call \in fsCalls :
    (res.status = 200 /\ call.op = "readFileSync") =>
      /\ req.route \in YamlRoutes => res.body = Rendering(call.node.text, req.accept)
      /\ req.route \in AggregateRoutes => res.body = Rendering(call.node.text, <<>>)

C16_Witness ==
  /\ req.route \in YamlRoutes
  /\ res.status = 200
  /\ req.correlationId > 1
  /\ nchg > 0
  /\ apiSpecDownloads # <<>>
  /\ \E call \in fsCalls :
       /\ call.op = "readFileSync"
       /\ call.node.text = DocDated
       /\ res.body = Rendering(DocDated, req.accept)

\* The step serves GET /versions to the client whose GET /versions was
\* served last, both requests reached the handler and both read the same
\* manifest.
VersionsAgain ==
  /\ req.route = "/versions"
  /\ req'.route = "/versions"
  /\ req'.client = req.client
  /\ nreq' = nreq + 1
  /\ res.by = "handler"
  /\ res'.by = "handler"
  /\ fsCalls' = fsCalls

\* A body without its correlation id.
SansId(body) == [body EXCEPT !.correlationId = 0]

\* C17 as claimed: two GET /versions requests back to back, the manifest
\* unchanged between them, get identical bodies in every state of the
\* manifest (well-formed, empty, unparseable, missing).
C17_VersionsIdempotent == [][VersionsAgain => res'.body = res.body]_vars

\* C17 as amended: the two requests get the same status; with a manifest that
\* loads, identical bodies; with one that does not (empty, unparseable,
\* missing), 500 bodies that are equal but for the correlation id, which is
\* each request's own.
C17_VersionsIdempotentWhenLoaded ==
  [][VersionsAgain =>
       /\ res'.status = res.status
       /\ res.status = 200 => res'.body = res.body
       /\ res.status # 200 =>
            /\ res.status = 500
            /\ SansId(res'.body) = SansId(res.body)
            /\ res'.body.correlationId = req'.correlationId
            /\ res'.body.correlationId # res.body.correlationId]_vars

C17_Witness ==
  /\ req.route = "/versions"
  /\ res.status = 200
  /\ nreq = 2
  /\ <<"GET", "/versions", 200>> \in DOMAIN httpRequestsTotal
  /\ httpRequestsTotal[<<"GET", "/versions", 200>>] = 2
  /\ res.body = TreeBody(YamlLoad(fs.manifest.text))

\* What GET /openapi/backend-frontend-api-v1.yaml with a JSON Accept is
\* answered when the aggregate file is "node".
GenericJson(node, cid) ==
  LET f == [Provisioned EXCEPT !.files[AggPath] = node]
  IN OpenapiHandler(AggName, <<"application/json">>, cid, f, f)

\* The last request reached the handler of an aggregate route, which read
\* "call".
AggregateRead(call) ==
  /\ req.route \in AggregateRoutes
  /\ res.by = "handler"
  /\ call \in fsCalls
  /\ call.op = "readFileSync"

\* C18 as claimed: in every state of the aggregate file and with every Accept
\* header, an admitted request to an aggregate route has the status and body
\* of GET /openapi/backend-frontend-api-v1.yaml with a JSON Accept, and its
\* body is never YAML.
C18_AggregateAsGeneric ==
  \A call \in fsCalls :
    AggregateRead(call) =>
      /\ res.status = GenericJson(call.node, req.correlationId).status
      /\ res.body = GenericJson(call.node, req.correlationId).body
      /\ res.body.kind # "text"

\* C18 as amended: where the generic route answers 200 the aggregate route
\* answers 200 with the same JSON body, whatever the Accept header; in every
\* other state of the file (missing, a directory, unparseable) it answers 500
\* with its own error string; its body is never YAML.
C18_AggregateRendersJson ==
  \A call \in fsCalls :
    AggregateRead(call) =>
      LET g == GenericJson(call.node, req.correlationId) IN
      /\ g.status = 200 =>
           /\ res.status = 200
           /\ res.body = g.body
      /\ g.status # 200 =>
           /\ res.status = 500
           /\ res.body = ErrorBody(FailureString(req.route), req.correlationId)
      /\ res.contentType = "application/json"
      /\ res.body.kind # "text"

C18_Witness ==
  /\ req.route \in AggregateRoutes
  /\ Includes(req.accept, "application/yaml")
  /\ res.status = 200
  /\ res.body.kind = "json"
  /\ <<"GET", "/openapi/:spec", 200>> \in DOMAIN httpRequestsTotal
  /\ \E call \in fsCalls : res.body = GenericJson(call.node, 1).body

\* The extension the listing requires of an entry of "cat".
ListedExtension(cat, name) ==
  IF cat = "protobuf" THEN EndsWith(name, "proto") ELSE EndsWith(name, "yaml")

\* The entries of the root of "cat", files and directories alike.
Entries(f, cat) ==
  {n \in StoredNames(cat) : NodeAt(f, PathJoin(cat, n)).kind # "absent"}

Renderable(f, cat, name) ==
  LET n == NodeAt(f, PathJoin(cat, name)) IN
  /\ n.kind = "file"
  /\ cat = "protobuf" \/ ~YamlLoad(n.text).threw

\* C20: a path that GET /specs lists under openapi, asyncapi or protobuf,
\* requested next with the file store as it was for the listing, is answered
\* 200, whatever the name of the entry (taken for entries that are regular
\* files with a parseable text).
C20_ListedIsServable ==
  [][(/\ req.route = "/specs"
      /\ res.status = 200
      /\ req'.route \in NamedRoutes
      /\ nreq' = nreq + 1
      /\ res'.by # "limiter"
      /\ fs' = fs
      /\ <<RouteCategory(req'.route), req'.name>> \in res.body.listing
      /\ Renderable(fs, RouteCategory(req'.route), req'.name))
       => res'.status = 200]_vars

\* The last request was to a path no route matches and passed limiter.
UnmatchedServed == req.route = "/unknown" /\ res.by # "limiter"

Value(counter, label) == IF label \in DOMAIN counter THEN counter[label] ELSE 0

\* The step serves a request with a successful render: a 200 from a named or
\* an aggregate route.
RenderStep ==
  /\ nreq' = nreq + 1
  /\ res'.status = 200
  /\ req'.route \in NamedRoutes \cup AggregateRoutes

\* The step adds one to the download counter of "label" and nothing to any
\* other.
CountsOnce(label) ==
  \A l \in DOMAIN apiSpecDownloads' \cup {label} :
    Value(apiSpecDownloads', l) =
      Value(apiSpecDownloads, l) + (IF l = label THEN 1 ELSE 0)

\* The category and file name of the request the step serves.
FileLabel ==
  IF req'.route \in AggregateRoutes THEN Label("openapi", AggName)
  ELSE Label(RouteCategory(req'.route), req'.name)

\* The label the code counts the request under: the file name on a named
\* route, 'frontend' or 'backend' on an aggregate route.
CodeLabel ==
  IF req'.route = "/frontend/openapi.json" THEN Label("openapi", <<"frontend">>)
  ELSE IF req'.route = "/backend/openapi.json" THEN Label("openapi", <<"backend">>)
  ELSE Label(RouteCategory(req'.route), req'.name)

\* C22 as claimed: every successful render adds exactly one to the download
\* counter labelled with the request's category and file name and leaves the
\* counter of every other label as it was.
C22_RenderCountsFile == [][RenderStep => CountsOnce(FileLabel)]_vars

\* C22 as amended: the same, the label of a render on an aggregate route
\* being (openapi, 'frontend') or (openapi, 'backend') in place of the file's
\* name.
C22_RenderCountsLabel == [][RenderStep => CountsOnce(CodeLabel)]_vars

C22_Witness ==
  /\ req.route \in NamedRoutes
  /\ res.status = 200
  /\ Value(apiSpecDownloads, Label(RouteCategory(req.route), req.name)) = 1
  /\ Value(apiSpecDownloads, Label("openapi", <<"frontend">>)) = 1
  /\ Value(httpRequestsTotal, <<"GET", "/frontend/openapi.json", 200>>) = 1

\* Some part of the body is the file name "name".
NamesFile(body, name) ==
  \/ body.text = name
  \/ \E i \in DOMAIN body.tree : body.tree[i][2] = <<"str", name>>
  \/ \E l \in body.listing : l[2] = name

\* C23: the body of a 404 that the handler of a named route sends holds the
\* requested file name and the request's correlation id.
C23_NotFoundNamesFile ==
  (ServedNamed /\ res.status = 404 /\ res.by = "handler") =>
    /\ NamesFile(res.body, req.name)
    /\ req.correlationId # 0
    /\ res.body.correlationId = req.correlationId

\* C24: no request changes the stored files: with nobody changing them from
\* outside, every step of the server (a request on any route, with any
\* outcome) leaves the category roots, their entries, the entries' contents
\* and the version manifest as they were.
C24_RequestsKeepFiles == [][fs' = fs]_vars

C24_Witness ==
  /\ nreq = MaxQuietRequests
  /\ fs \in Stores \ {Provisioned}
  /\ res.status \in {404, 429, 500}
  /\ apiSpecDownloads # <<>>
  /\ httpRequestsTotal # <<>>
  /\ globalStore # EmptyStore

\* The requests of client c to the two aggregate routes that arrived in minute
\* t and passed both limiters.
PassedStrict(c, t) ==
  LET Passed(a) == a[1] = t /\ a[2] \in {"frontend", "backend"} /\ a[3]
  IN Count(arrivals[c], Passed)

\* C25: the two aggregate routes share one strict quota per client address:
\* in every strictLimiter window the requests of one client that pass
\* strictLimiter on /frontend/openapi.json and /backend/openapi.json together
\* are at most max (100), so a request to one route uses up the quota of the
\* other.
C25_SharedStrictQuota ==
  \A c \in Clients : \A i \in DOMAIN arrivals[c] :
    PassedStrict(c, arrivals[c][i][1]) <= StrictMax

C25_Witness ==
  /\ req.route = "/backend/openapi.json"
  /\ res.status = 429
  /\ res.by = "strictLimiter"
  /\ SentInMinute({"backend"}) = 1
  /\ SentInMinute({"frontend"}) = StrictMax
  /\ PassedStrict(req.client, req.at) = StrictMax

\* The sum of a counter's values over all its labels.
RECURSIVE SumOver(_, _)
SumOver(counter, labels) ==
  IF labels = {} THEN 0
  ELSE LET l == CHOOSE x \in labels : TRUE
       IN counter[l] + SumOver(counter, labels \ {l})

Total(counter) == SumOver(counter, DOMAIN counter)

\* C26: http_requests_total counts every response exactly once: each step
\* that sends a response (429 rejections by limiter and by strictLimiter
\* included) increments by one the value labelled with that response's method,
\* route and status code and leaves the other values alone, so the sum over
\* all labels equals the number of responses sent.
C26_CountsEveryResponse ==
  [][nreq' = nreq + 1 =>
       /\ \A l \in DOMAIN httpRequestsTotal' :
            Value(httpRequestsTotal', l) =
              Value(httpRequestsTotal, l) +
                (IF l = <<"GET", req'.route, res'.status>> THEN 1 ELSE 0)
       /\ Total(httpRequestsTotal') = Total(httpRequestsTotal) + 1
       /\ Total(httpRequestsTotal') = nreq']_vars

\* C27: api_spec_downloads_total counts only successful renders: a request
\* that ends in 400, 404, 429 or 500 (an unparseable file, a protobuf file
\* that cannot be sent) leaves every value of the counter as it was, so no
\* value exceeds the number of 200 responses for its category and file name.
C27_CountsOnlyRenders ==
  [][(nreq' = nreq + 1 /\ res'.status # 200) =>
       apiSpecDownloads' = apiSpecDownloads]_vars

SameStoredFile ==
  /\ req.route \in YamlRoutes
  /\ req'.route = req.route
  /\ req'.name = req.name
  /\ req'.client = req.client
  /\ nreq' = nreq + 1
  /\ res.by = "handler"
  /\ res'.by = "handler"
  /\ \A c1 \in fsCalls \cup fsCalls', c2 \in fsCalls \cup fsCalls' : c1.node = c2.node

\* C29: on /openapi/:spec and /asyncapi/:spec the status code does not depend
\* on the Accept header: two requests for the same file name that find the
\* stored file in the same state and differ in their Accept headers only are
\* answered with the same status code.
C29_StatusIgnoresAccept ==
  [][(SameStoredFile /\ req'.accept # req.accept) => res'.status = res.status]_vars

\* The successful JSON renderings of the aggregate file that client c
\* obtained in minute t, over all the routes that serve the file.
RenderedInMinute(c, t) ==
  LET Rendered(a) == a[1] = t /\ a[4]
  IN Count(arrivals[c], Rendered)

\* C30: within one strictLimiter window a client obtains at most max (100)
\* successful JSON renderings (file read plus YAML parse) of
\* backend-frontend-api-v1.yaml, counted over all routes that serve that file.
C30_StrictQuotaBoundsRenderings ==
  \A c \in Clients : \A i \in DOMAIN arrivals[c] :
    RenderedInMinute(c, arrivals[c][i][1]) <= StrictMax

====
